---- MODULE Spec2Model ----
(***************************************************************************)
(* Model of the retrieval service of helpdesk_AI: class RAGService        *)
(* (src/services/faceVerification.js, lines 172-401), its start-up script *)
(* (src/create-super-admin.js, initializeRAG) and the two diagnostic      *)
(* routes GET /test-rag and POST /refresh-rag (src/unnamed/part_001).     *)
(*                                                                         *)
(* The service is a module-level singleton shared by every request.  Node *)
(* runs one handler at a time and switches handlers only at an await of   *)
(* an I/O operation (fs.readFile / pdfParse, embedContent), so one action *)
(* of the model is the code that runs between two such awaits.            *)
(*                                                                         *)
(* A string cut out of a document is represented by the document and the  *)
(* half-open span [from, to) of 0-based offsets it was sliced from.       *)
(*                                                                         *)
(* Spec is the service under concurrent requests.  UnitSpec calls the     *)
(* functions that read no field of the service (splitIntoChunks,          *)
(* cosineSimilarity, the ranking of searchRelevantContext,                *)
(* extractSearchTerms, and AIAssistant.processMessage of                  *)
(* src/services/aiAssistant.js) on their own.                             *)
(***************************************************************************)
EXTENDS Integers, Sequences, FiniteSets, TLC

(***************************************************************************)
(* Bounds of the model.                                                    *)
(***************************************************************************)
\* number of concurrent callers (requests in flight at the same time)
NumCallers == 2
\* total number of calls started in one behaviour
MaxCalls == 3

Procs == 1..NumCallers

(***************************************************************************)
(* Small helpers.                                                          *)
(***************************************************************************)
Min2(a, b) == IF a < b THEN a ELSE b

Max2(a, b) == IF a > b THEN a ELSE b

\* a string of n copies of the character c
Rep(c, n) == [j \in 1..n |-> c]

\* String.prototype.trim treats these as white space (of the characters used)
IsWhitespace(c) == c \in {" ", "\n", "\t"}

\* text.slice(a, b) as the half-open span it selects: negative arguments count
\* from the end of the string, and the span is empty when b is not after a
SliceSpan(len, a, b) ==
    LET lo == IF a < 0 THEN Max2(len + a, 0) ELSE Min2(a, len)
        hi == IF b < 0 THEN Max2(len + b, 0) ELSE Min2(b, len)
    IN  [from |-> lo, to |-> Max2(lo, hi)]

\* as LastIndexOf, for a search that never finds the character
LastIndexOfNone(text, span, c) == 0 - 1

\* chunk.lastIndexOf(c), relative to the start of the span; -1 when absent
LastIndexOf(text, span, c) ==
    LET hits == {j \in span.from..(span.to - 1) : text[j + 1] = c}
    IN  IF hits = {} THEN -1
        ELSE (CHOOSE j \in hits : \A h \in hits : h <= j) - span.from

\* as Trim, for a chunk that is tested and stored without trim()
TrimNone(text, span) == span

\* chunk.trim() as a span
Trim(text, span) ==
    LET inside == span.from..(span.to - 1)
    IN  IF \A j \in inside : IsWhitespace(text[j + 1])
        THEN [from |-> span.from, to |-> span.from]
        ELSE LET first == CHOOSE j \in inside :
                              /\ ~IsWhitespace(text[j + 1])
                              /\ \A h \in span.from..(j - 1) : IsWhitespace(text[h + 1])
                 last  == CHOOSE j \in inside :
                              /\ ~IsWhitespace(text[j + 1])
                              /\ \A h \in (j + 1)..(span.to - 1) : IsWhitespace(text[h + 1])
             IN  [from |-> first, to |-> last + 1]

\* a chunk shorter than this after trimming is dropped
MinChunkLength == 50

(***************************************************************************)
(* RAGService.splitIntoChunks: one iteration of the while loop, from the   *)
(* cursor start.  Gives the window that was cut, the trimmed chunk, whether *)
(* it is kept, and the next cursor.                                        *)
(***************************************************************************)
ChunkStep(text, chunkSize, overlap, start) ==
    LET len        == Len(text)
        end        == Min2(start + chunkSize, len)
        window     == SliceSpan(len, start, end)
        lastPeriod == LastIndexOf(text, window, ".")
        lastNewline == LastIndexOf(text, window, "\n")
        breakPoint == Max2(lastPeriod, lastNewline)
        \* breakPoint > start + chunkSize * 0.7
        atBreak    == end < len /\ 10 * breakPoint > 10 * start + 7 * chunkSize
        cut        == IF atBreak THEN SliceSpan(len, start, start + breakPoint + 1)
                      ELSE window
        next       == IF end < len
                      THEN IF atBreak THEN start + breakPoint + 1 - overlap
                           ELSE end - overlap
                      ELSE end
        trimmed    == Trim(text, cut)
    IN  [cut |-> cut, chunk |-> trimmed,
         keep |-> (trimmed.to - trimmed.from) > MinChunkLength,
         atBreak |-> atBreak, next |-> next]

RECURSIVE SplitLoop(_, _, _, _, _)
SplitLoop(text, chunkSize, overlap, start, chunks) ==
    IF ~(start < Len(text)) THEN chunks
    ELSE LET s == ChunkStep(text, chunkSize, overlap, start)
         IN  SplitLoop(text, chunkSize, overlap, s.next,
                       IF s.keep THEN Append(chunks, s.chunk) ELSE chunks)

splitIntoChunks(text, chunkSize, overlap) ==
    SplitLoop(text, chunkSize, overlap, 0, <<>>)

(***************************************************************************)
(* The source document at PDF_PATH, as pdfParse extracts it.  Two versions *)
(* of the guide are considered: one that is cut into two chunks (the first *)
(* at a sentence boundary) and one that fits into a single chunk.          *)
(***************************************************************************)
GuideLong == Rep("a", 900) \o <<".">> \o Rep("a", 199)

GuideShort == <<" ">> \o Rep("a", 60) \o <<"\n">>

Docs == {"long", "short"}

DocText(d) == IF d = "long" THEN GuideLong ELSE GuideShort

\* chunkSize and overlap passed by loadAndProcessPDF
ChunkSize == 1000

ChunkOverlap == 200

LongChunks == splitIntoChunks(GuideLong, ChunkSize, ChunkOverlap)

ShortChunks == splitIntoChunks(GuideShort, ChunkSize, ChunkOverlap)

\* this.splitIntoChunks(fullText, 1000, 200): the chunk strings of document d
DocChunks(d) ==
    LET spans == IF d = "long" THEN LongChunks ELSE ShortChunks
    IN  [j \in 1..Len(spans) |-> [doc |-> d, from |-> spans[j].from, to |-> spans[j].to]]

(***************************************************************************)
(* The embedding provider (embedContent): it fails, or answers a vector.   *)
(* The answer is determined by the text and by the dimension of the model  *)
(* that serves the request; a misconfigured provider serves some requests  *)
(* from a model of another dimension.                                      *)
(***************************************************************************)
EmbedDims == {1, 2}

QueryText == [doc |-> "query", from |-> 0, to |-> 0]

Embedding(text, dim) ==
    IF dim = 1 THEN <<1>>
    ELSE IF text.doc = "short" THEN <<1, 1>>
    ELSE IF text.doc = "long" /\ text.from > 0 THEN <<0, 1>>
    ELSE <<1, 0>>

EmbedAnswers(text) == {Embedding(text, dim) : dim \in EmbedDims}

(***************************************************************************)
(* RAGService.cosineSimilarity.  The value dot / (sqrt(na) * sqrt(nb)) is  *)
(* kept exactly, as the pair num = dot, den2 = na * nb.                    *)
(***************************************************************************)
RECURSIVE SumTo(_, _)
SumTo(f, n) == IF n = 0 THEN 0 ELSE f[n] + SumTo(f, n - 1)

Dot(vecA, vecB) == SumTo([j \in 1..Len(vecA) |-> vecA[j] * vecB[j]], Len(vecA))

\* as cosineSimilarity, without the test of lines 311-313: the division of
\* line 315 by a zero norm gives NaN, kept as the pair 0 / 0
cosineSimilarityUnguarded(vecA, vecB) ==
    IF Len(vecA) # Len(vecB)
    THEN [threw |-> TRUE, num |-> 0, den2 |-> 1]
    ELSE [threw |-> FALSE, num |-> Dot(vecA, vecB),
          den2 |-> Dot(vecA, vecA) * Dot(vecB, vecB)]

cosineSimilarity(vecA, vecB) ==
    IF Len(vecA) # Len(vecB)
    THEN [threw |-> TRUE, num |-> 0, den2 |-> 1]
    ELSE LET dotProduct == Dot(vecA, vecB)
             normA2 == Dot(vecA, vecA)
             normB2 == Dot(vecB, vecB)
         IN  IF normA2 = 0 \/ normB2 = 0
             THEN [threw |-> FALSE, num |-> 0, den2 |-> 1]
             ELSE [threw |-> FALSE, num |-> dotProduct, den2 |-> normA2 * normB2]

\* x * |x|: keeps the order of x
SignedSquare(x) == IF x < 0 THEN 0 - x * x ELSE x * x

\* s.num / sqrt(s.den2) < t.num / sqrt(t.den2)
SimLess(s, t) == SignedSquare(s.num) * t.den2 < SignedSquare(t.num) * s.den2

\* similarity.toFixed(3), in thousandths: the nearest multiple of 0.001
RECURSIVE RoundSearch(_, _, _)
RoundSearch(s, lo, hi) ==
    \* the largest m in lo..hi with (2m - 1) / 2000 <= |similarity|
    IF lo = hi THEN lo
    ELSE LET mid == (lo + hi + 1) \div 2
         IN  IF (2 * mid - 1) * (2 * mid - 1) * s.den2 <= 4000000 * s.num * s.num
             THEN RoundSearch(s, mid, hi)
             ELSE RoundSearch(s, lo, mid - 1)

ToFixed3(s) ==
    LET m == RoundSearch(s, 0, 1000)
    IN  IF s.num < 0 THEN 0 - m ELSE m

\* as InsertDesc, for a sort that is not stable: the element goes before the
\* elements of equal similarity
RECURSIVE InsertDescTiesFirst(_, _)
InsertDescTiesFirst(sorted, e) ==
    IF sorted = <<>> THEN <<e>>
    ELSE IF ~SimLess(e.similarity, Head(sorted).similarity)
         THEN <<e>> \o sorted
         ELSE <<Head(sorted)>> \o InsertDescTiesFirst(Tail(sorted), e)

\* as SortDesc, with the comparator (a, b) => a.similarity - b.similarity
RECURSIVE InsertAsc(_, _)
InsertAsc(sorted, e) ==
    IF sorted = <<>> THEN <<e>>
    ELSE IF SimLess(e.similarity, Head(sorted).similarity)
         THEN <<e>> \o sorted
         ELSE <<Head(sorted)>> \o InsertAsc(Tail(sorted), e)

RECURSIVE SortAsc(_)
SortAsc(seq) ==
    IF seq = <<>> THEN <<>>
    ELSE InsertAsc(SortAsc(SubSeq(seq, 1, Len(seq) - 1)), seq[Len(seq)])

(***************************************************************************)
(* Array.prototype.sort with (a, b) => b.similarity - a.similarity: a      *)
(* stable sort, larger similarity first.                                   *)
(***************************************************************************)
RECURSIVE InsertDesc(_, _)
InsertDesc(sorted, e) ==
    IF sorted = <<>> THEN <<e>>
    ELSE IF SimLess(Head(sorted).similarity, e.similarity)
         THEN <<e>> \o sorted
         ELSE <<Head(sorted)>> \o InsertDesc(Tail(sorted), e)

RECURSIVE SortDesc(_)
SortDesc(seq) ==
    IF seq = <<>> THEN <<>>
    ELSE InsertDesc(SortDesc(SubSeq(seq, 1, Len(seq) - 1)), seq[Len(seq)])

\* as SliceTo, without the slice of line 338
SliceToAll(seq, k) == seq

\* array.slice(0, k)
SliceTo(seq, k) ==
    LET span == SliceSpan(Len(seq), 0, k)
    IN  SubSeq(seq, 1, span.to)

\* lines 330-346: score every stored entry, sort, keep k, format
topResults(entries, queryEmbedding, k) ==
    SliceTo(SortDesc([j \in 1..Len(entries) |->
                [chunk |-> entries[j].chunk, index |-> entries[j].index,
                 similarity |-> cosineSimilarity(queryEmbedding, entries[j].embedding)]]), k)

\* the returned text: one "Relevant Section n (Similarity: x):\n<chunk>\n" per
\* result; no result gives the empty string, represented by <<>>
FormatContext(results) ==
    [j \in 1..Len(results) |->
        [section |-> j, similarity |-> ToFixed3(results[j].similarity),
         chunk |-> results[j].chunk]]

\* the map of line 330 raises when a stored vector has another length
SimilarityThrows(entries, queryEmbedding) ==
    \E j \in 1..Len(entries) : Len(entries[j].embedding) # Len(queryEmbedding)

EmptyString == <<>>

(***************************************************************************)
(* RAGService.extractSearchTerms.  A message is a sequence of characters.  *)
(***************************************************************************)
\* String.prototype.toLowerCase, for the letters used
LowerChar(c) ==
    CASE c = "P" -> "p"
      [] c = "W" -> "w"
      [] c = "F" -> "f"
      [] OTHER -> c

toLowerCase(s) == [j \in 1..Len(s) |-> LowerChar(s[j])]

\* as SplitScan, for split(' '): only the space separates, and every space
\* ends a token
RECURSIVE SplitScanSpaces(_, _, _, _, _)
SplitScanSpaces(s, j, cur, inRun, tokens) ==
    IF j > Len(s) THEN Append(tokens, cur)
    ELSE IF s[j] = " "
         THEN SplitScanSpaces(s, j + 1, <<>>, TRUE, Append(tokens, cur))
         ELSE SplitScanSpaces(s, j + 1, Append(cur, s[j]), FALSE, tokens)

\* s.split(/\s+/) from character j on: cur is the token being read, inRun
\* tells that the previous character was white space.  A run of white space
\* ends the token before it, also the empty token before a leading run, and
\* the end of the string ends the last token, also an empty one.
RECURSIVE SplitScan(_, _, _, _, _)
SplitScan(s, j, cur, inRun, tokens) ==
    IF j > Len(s) THEN Append(tokens, cur)
    ELSE IF IsWhitespace(s[j])
         THEN IF inRun THEN SplitScan(s, j + 1, cur, TRUE, tokens)
              ELSE SplitScan(s, j + 1, <<>>, TRUE, Append(tokens, cur))
         ELSE SplitScan(s, j + 1, Append(cur, s[j]), FALSE, tokens)

\* words of this length or less are filtered out (line 379)
MaxShortWord == 3

\* number of words kept (line 380)
MaxSearchTerms == 5

\* array.filter(word => word.length > 3)
RECURSIVE FilterLong(_)
FilterLong(words) ==
    IF words = <<>> THEN <<>>
    ELSE IF Len(Head(words)) > MaxShortWord
         THEN <<Head(words)>> \o FilterLong(Tail(words))
         ELSE FilterLong(Tail(words))

\* array.join(' ')
RECURSIVE JoinSpace(_)
JoinSpace(words) ==
    IF words = <<>> THEN <<>>
    ELSE IF Len(words) = 1 THEN words[1]
    ELSE words[1] \o <<" ">> \o JoinSpace(Tail(words))

\* lines 377-382
extractSearchTerms(message) ==
    LET keywords == SliceTo(FilterLong(SplitScan(toLowerCase(message), 1, <<>>, FALSE, <<>>)),
                            MaxSearchTerms)
    IN  JoinSpace(keywords)

(***************************************************************************)
(* State.                                                                  *)
(***************************************************************************)
VARIABLES
    \* the file at PDF_PATH: the version of the guide it holds
    pdf,
    \* the fields of the RAGService singleton (constructor, lines 173-180)
    embeddings,        \* this.embeddings: "null" or "model"
    documentChunks,    \* this.documentChunks
    chunkEmbeddings,   \* this.chunkEmbeddings: entries {chunk, embedding, index}
    isInitialized,     \* this.isInitialized
    \* one record of control state per caller
    op,                \* the entry point the caller invoked, or "none"
    stack,             \* the functions whose try blocks enclose the awaited step, outermost first
    pc,                \* "idle", the await the call is suspended at, or "done"
    i,                 \* loop variable i of generateChunkEmbeddings
    chunk,             \* const chunk of generateChunkEmbeddings (line 261)
    out,               \* what the call gave back to its caller
    calls,             \* number of calls started
    \* what each call has done so far (history, read by the properties only)
    entry,             \* at the moment of the call: isInitialized, whether a
                       \* complete generation was held and, for a refresh of
                       \* an initialized service, the two arrays
    did,               \* the steps the call has taken
    sent,              \* the chunks the call has sent to the embedder, in order
    \* a function of the service called on its own, outside any request
    call,              \* the function and its arguments (and its loop state)
    ret                \* what it has computed

service == <<embeddings, documentChunks, chunkEmbeddings, isInitialized>>

control == <<op, stack, pc, i, chunk, out, calls>>

history == <<entry, did, sent>>

unit == <<call, ret>>

vars == <<pdf, embeddings, documentChunks, chunkEmbeddings, isInitialized,
          op, stack, pc, i, chunk, out, calls, entry, did, sent, call, ret>>

NoChunk == [doc |-> "none", from |-> 0, to |-> 0]

Pending == [status |-> "pending", text |-> EmptyString]

\* GET /test-rag asks for two sections (part_001 line 117)
TestRagChunks == 2

\* the values of k passed by callers: 1, the 2 of GET /test-rag, the default 3
KValues == {1, TestRagChunks, 3}

Snapshot == [documentChunks |-> documentChunks, chunkEmbeddings |-> chunkEmbeddings,
             isInitialized |-> isInitialized]

ColdSnapshot == [documentChunks |-> <<>>, chunkEmbeddings |-> <<>>, isInitialized |-> FALSE]

\* entries is a fully built index of the chunk list chunks: one entry per
\* chunk, in order, entry j holding chunk j and index j (counted from 0)
IsBuildOf(entries, chunks) ==
    /\ Len(entries) = Len(chunks)
    /\ \A j \in 1..Len(chunks) : entries[j].chunk = chunks[j] /\ entries[j].index = j - 1

\* the service holds one complete generation: the flag is set and the index
\* is fully built for its chunk list, which is that of a version of the guide
HoldsGeneration ==
    /\ isInitialized
    /\ IsBuildOf(chunkEmbeddings, documentChunks)
    /\ \E d \in Docs : documentChunks = DocChunks(d)

NoEntry == [generation |-> FALSE, before |-> ColdSnapshot]

NoCall == [fn |-> "none"]

NoReturn == [status |-> "none"]

Init ==
    /\ pdf = "long"
    /\ embeddings = "null"
    /\ documentChunks = <<>>
    /\ chunkEmbeddings = <<>>
    /\ isInitialized = FALSE
    /\ op = [p \in Procs |-> "none"]
    /\ stack = [p \in Procs |-> <<>>]
    /\ pc = [p \in Procs |-> "idle"]
    /\ i = [p \in Procs |-> 0]
    /\ chunk = [p \in Procs |-> NoChunk]
    /\ out = [p \in Procs |-> Pending]
    /\ calls = 0
    /\ entry = [p \in Procs |-> NoEntry]
    /\ did = [p \in Procs |-> {}]
    /\ sent = [p \in Procs |-> <<>>]
    /\ call = NoCall
    /\ ret = NoReturn

(***************************************************************************)
(* Returning and raising.                                                  *)
(***************************************************************************)
\* as SwallowingFrames, with a getRelevantSections whose catch block rethrows
SwallowingFramesSearchOnly == {"searchRelevantContext"}

\* as SwallowingFrames, with a searchRelevantContext whose catch block rethrows
SwallowingFramesSectionsOnly == {"getRelevantSections"}

\* the functions whose catch block returns '' instead of rethrowing
\* (searchRelevantContext lines 349-353, getRelevantSections lines 369-372)
SwallowingFrames == {"searchRelevantContext", "getRelevantSections"}

\* what the caller of entry point o receives when it returns text
ReturnOutcome(o, text) == [status |-> "returned", text |-> text]

\* as ThrowOutcome, with catch blocks that log the error and do not rethrow
ThrowOutcomeLogged(stk) == [status |-> "returned", text |-> EmptyString]

\* what the caller of the entry point receives when the innermost function of
\* stk raises: initialize, loadAndProcessPDF, generateChunkEmbeddings,
\* getEmbedding and refreshVectorStore log and rethrow; a swallowing frame
\* returns '' to its caller, which carries on as after a normal return
ThrowOutcome(stk) ==
    IF \E j \in 1..Len(stk) : stk[j] \in SwallowingFrames
    THEN ReturnOutcome(stk[1], EmptyString)
    ELSE [status |-> "threw", text |-> EmptyString]

\* the call stack of entry point o while it awaits the query embedding
QueryStack(o) ==
    IF o = "getRelevantSections" THEN <<"getRelevantSections", "searchRelevantContext">>
    ELSE <<"searchRelevantContext">>

\* the call stack of entry point o while it runs loadAndProcessPDF
BuildStack(o) ==
    IF o = "getRelevantSections" THEN <<"getRelevantSections", "initialize", "loadAndProcessPDF">>
    ELSE IF o = "searchRelevantContext" THEN <<"searchRelevantContext", "initialize", "loadAndProcessPDF">>
    ELSE IF o = "refreshVectorStore" THEN <<"refreshVectorStore", "loadAndProcessPDF">>
    ELSE <<"initialize", "loadAndProcessPDF">>

QueryOps == {"searchRelevantContext", "getRelevantSections"}

\* the call raised: it is over, with the outcome its catch blocks produce
Raise(p) ==
    [pc |-> "done", stack |-> <<>>, out |-> ThrowOutcome(stack[p]), events |-> {"failed"}]

\* searchRelevantContext lines 324-327 and getEmbedding lines 283-284: the
\* query is sent to the embedder; this.embeddings.embedContent raises a
\* TypeError when this.embeddings is still null
StartQuery(o, emb) ==
    IF emb = "null"
    THEN [pc |-> "done", stack |-> <<>>, out |-> ThrowOutcome(QueryStack(o)),
          events |-> {"failed"}]
    ELSE [pc |-> "embedQuery", stack |-> QueryStack(o), out |-> Pending, events |-> {}]

\* loadAndProcessPDF has returned to initialize / refreshVectorStore, which sets
\* isInitialized (lines 194, 392) and returns; a query that initialized lazily
\* goes on to embed its query
AfterBuild(o, emb) ==
    IF o \in QueryOps
    THEN [pc |-> StartQuery(o, emb).pc, stack |-> StartQuery(o, emb).stack,
          out |-> StartQuery(o, emb).out,
          events |-> StartQuery(o, emb).events \cup {"setInitialized"}]
    ELSE [pc |-> "done", stack |-> <<>>, out |-> ReturnOutcome(o, EmptyString),
          events |-> {"setInitialized"}]

\* the control state of caller p becomes n; the fields of n not named are kept
Goto(p, n, also) ==
    /\ UNCHANGED <<pdf, unit>>
    /\ pc' = [pc EXCEPT ![p] = n.pc]
    /\ stack' = [stack EXCEPT ![p] = n.stack]
    /\ out' = [out EXCEPT ![p] = n.out]
    /\ did' = [did EXCEPT ![p] = @ \cup n.events \cup also]

\* a call of entry point o starts; callers are interchangeable, and the call
\* is given to the first caller that is free
Enter(p, o) ==
    /\ pc[p] = "idle"
    /\ \A q \in Procs : q < p => pc[q] # "idle"
    /\ calls < MaxCalls
    /\ calls' = calls + 1
    /\ op' = [op EXCEPT ![p] = o]
    /\ entry' = [entry EXCEPT ![p] =
                    [generation |-> HoldsGeneration,
                     before |-> IF o = "refreshVectorStore" /\ isInitialized
                                THEN Snapshot
                                ELSE [ColdSnapshot EXCEPT !.isInitialized = isInitialized]]]

\* initialize lines 183-192 and loadAndProcessPDF lines 203-205: the model
\* handle is created and the read of the PDF is started; nothing tests
\* isInitialized
StartInitialize(p, o) ==
    /\ embeddings' = "model"
    /\ Goto(p, [pc |-> "readFile", stack |-> BuildStack(o), out |-> Pending,
                events |-> {"initialize"}], {})
    /\ UNCHANGED <<documentChunks, chunkEmbeddings, isInitialized, i, chunk, sent>>

(***************************************************************************)
(* Entry points.                                                           *)
(***************************************************************************)
\* initialize(), as called by initializeRAG (create-super-admin.js line 52)
CallInitialize(p) ==
    /\ Enter(p, "initialize")
    /\ StartInitialize(p, "initialize")

\* the roles of a user that matter to the routes (req.user.role)
Roles == {"employee", "admin"}

\* a request to a route behind auth: without a valid token, or with the token
\* of a user of some role
Requests ==
    {[token |-> FALSE, role |-> "none"]} \cup {[token |-> TRUE, role |-> r] : r \in Roles}

\* the middleware auth: a request without a valid token is answered 401 and
\* the handler does not run; otherwise req.user is set and the handler runs,
\* whatever the role of the user is
auth(request) == request.token

\* POST /refresh-rag (part_001 lines 134-138) for a request that passes auth,
\* refreshVectorStore lines 386-391 and loadAndProcessPDF lines 203-205: the
\* flag and both arrays are reset before the new document is read.  The role
\* of the requester is kept with the steps of the call.
CallRefreshVectorStore(p) ==
    /\ Enter(p, "refreshVectorStore")
    /\ isInitialized' = FALSE
    /\ documentChunks' = <<>>
    /\ chunkEmbeddings' = <<>>
    /\ \E request \in Requests :
          /\ auth(request)
          /\ Goto(p, [pc |-> "readFile", stack |-> BuildStack("refreshVectorStore"),
                      out |-> Pending, events |-> {"refresh"}], {request.role})
    /\ UNCHANGED <<embeddings, i, chunk, sent>>

\* as BeginQuery, without the test of isInitialized of lines 320 and 358
BeginQueryEager(p, o) ==
    /\ Enter(p, o)
    /\ Goto(p, StartQuery(o, embeddings), {})
    /\ UNCHANGED <<service, i, chunk, sent>>

\* as BeginQuery, for a query that calls initialize() whatever the flag is
BeginQueryRebuilding(p, o) ==
    /\ Enter(p, o)
    /\ StartInitialize(p, o)

\* searchRelevantContext lines 319-327 / getRelevantSections lines 357-366:
\* initialize first when the flag is false, otherwise embed the query
BeginQuery(p, o) ==
    /\ Enter(p, o)
    /\ IF ~isInitialized
       THEN StartInitialize(p, o)
       ELSE /\ Goto(p, StartQuery(o, embeddings), {})
            /\ UNCHANGED <<service, i, chunk, sent>>

CallSearchRelevantContext(p) == BeginQuery(p, "searchRelevantContext")

CallGetRelevantSections(p) == BeginQuery(p, "getRelevantSections")

(***************************************************************************)
(* Completions of the awaited operations.                                  *)
(***************************************************************************)
\* fs.readFile or pdfParse rejects (lines 205-206): loadAndProcessPDF rethrows
ExtractFails(p) ==
    /\ pc[p] = "readFile"
    /\ Goto(p, Raise(p), {})
    /\ UNCHANGED <<service, op, i, chunk, calls, entry, sent>>

\* the text of the document is extracted: lines 207-215, then
\* generateChunkEmbeddings lines 257-262 up to the first embedContent call
ExtractDone(p) ==
    LET chunks == DocChunks(pdf)
        empty  == Len(chunks) = 0
        loops  == ~empty /\ embeddings # "null"
        n == IF empty THEN AfterBuild(op[p], embeddings)
             ELSE IF embeddings = "null" THEN Raise(p)
             ELSE [pc |-> "embedChunk", stack |-> stack[p], out |-> Pending, events |-> {}]
    IN  /\ pc[p] = "readFile"
        /\ documentChunks' = chunks
        /\ chunkEmbeddings' = <<>>
        /\ isInitialized' = IF empty THEN TRUE ELSE isInitialized
        /\ chunk' = [chunk EXCEPT ![p] = IF loops THEN chunks[1] ELSE NoChunk]
        /\ sent' = [sent EXCEPT ![p] = IF loops THEN Append(@, chunks[1]) ELSE @]
        /\ Goto(p, n, {"extracted"})
        /\ UNCHANGED <<embeddings, op, i, calls, entry>>

\* embedContent rejects for the chunk (line 262): getEmbedding,
\* generateChunkEmbeddings and loadAndProcessPDF rethrow
EmbedChunkFails(p) ==
    /\ pc[p] = "embedChunk"
    /\ i' = [i EXCEPT ![p] = 0]
    /\ chunk' = [chunk EXCEPT ![p] = NoChunk]
    /\ Goto(p, Raise(p), {"embedFailed"})
    /\ UNCHANGED <<service, op, calls, entry, sent>>

\* as EmbedChunkDone, with unshift in place of push: the entry is put in front
EmbedChunkDoneUnshift(p, v) ==
    LET more == i[p] + 1 < Len(documentChunks)
        next == documentChunks[i[p] + 2]
        n == IF more
             THEN [pc |-> "embedChunk", stack |-> stack[p], out |-> Pending, events |-> {}]
             ELSE AfterBuild(op[p], embeddings)
    IN  /\ pc[p] = "embedChunk"
        /\ chunkEmbeddings' = <<[chunk |-> chunk[p], embedding |-> v, index |-> i[p]]>>
                                   \o chunkEmbeddings
        /\ isInitialized' = IF more THEN isInitialized ELSE TRUE
        /\ i' = [i EXCEPT ![p] = IF more THEN @ + 1 ELSE 0]
        /\ chunk' = [chunk EXCEPT ![p] = IF more THEN next ELSE NoChunk]
        /\ sent' = [sent EXCEPT ![p] = IF more THEN Append(@, next) ELSE @]
        /\ Goto(p, n, {})
        /\ UNCHANGED <<embeddings, documentChunks, op, calls, entry>>

\* embedContent answers v for the chunk: the entry is pushed (lines 263-267),
\* and the loop goes on with the next element of this.documentChunks, or ends
EmbedChunkDone(p, v) ==
    LET more == i[p] + 1 < Len(documentChunks)
        next == documentChunks[i[p] + 2]
        n == IF more
             THEN [pc |-> "embedChunk", stack |-> stack[p], out |-> Pending, events |-> {}]
             ELSE AfterBuild(op[p], embeddings)
    IN  /\ pc[p] = "embedChunk"
        /\ chunkEmbeddings' = Append(chunkEmbeddings,
                                     [chunk |-> chunk[p], embedding |-> v, index |-> i[p]])
        /\ isInitialized' = IF more THEN isInitialized ELSE TRUE
        /\ i' = [i EXCEPT ![p] = IF more THEN @ + 1 ELSE 0]
        /\ chunk' = [chunk EXCEPT ![p] = IF more THEN next ELSE NoChunk]
        /\ sent' = [sent EXCEPT ![p] = IF more THEN Append(@, next) ELSE @]
        /\ Goto(p, n, {})
        /\ UNCHANGED <<embeddings, documentChunks, op, calls, entry>>

\* embedContent rejects for the query (line 327)
EmbedQueryFails(p) ==
    /\ pc[p] = "embedQuery"
    /\ Goto(p, Raise(p), {})
    /\ UNCHANGED <<service, op, i, chunk, calls, entry, sent>>

\* embedContent answers q for the query: lines 330-348 score, sort, cut to kk
\* and format the entries of this.chunkEmbeddings as it is now
EmbedQueryDone(p, q, kk) ==
    LET n == IF SimilarityThrows(chunkEmbeddings, q) THEN Raise(p)
             ELSE [pc |-> "done", stack |-> <<>>,
                   out |-> ReturnOutcome(op[p],
                               FormatContext(topResults(chunkEmbeddings, q, kk))),
                   events |-> {"ranked"}]
    IN  /\ pc[p] = "embedQuery"
        /\ Goto(p, n, {})
        /\ UNCHANGED <<service, op, i, chunk, calls, entry, sent>>

\* the caller has its answer and is free for another call
Complete(p) ==
    /\ pc[p] = "done"
    /\ pc' = [pc EXCEPT ![p] = "idle"]
    /\ op' = [op EXCEPT ![p] = "none"]
    /\ out' = [out EXCEPT ![p] = Pending]
    /\ entry' = [entry EXCEPT ![p] = NoEntry]
    /\ did' = [did EXCEPT ![p] = {}]
    /\ sent' = [sent EXCEPT ![p] = <<>>]
    /\ UNCHANGED <<pdf, service, stack, i, chunk, calls, unit>>

(***************************************************************************)
(* The diagnostic routes.  Each awaits one call of the service and maps    *)
(* its outcome to a response, so a route is the call of the service        *)
(* followed by this mapping.                                               *)
(***************************************************************************)
\* GET /test-rag (part_001 lines 106-131): 400 without a query parameter;
\* otherwise it awaits getRelevantSections(query, 2), answers its text with
\* 'RAG system test completed successfully', and answers 500 'Failed to test
\* RAG system' when the call raises
TestRagResponse(hasQuery, result) ==
    IF ~hasQuery THEN [code |-> 400, relevantContent |-> EmptyString]
    ELSE IF result.status = "threw" THEN [code |-> 500, relevantContent |-> EmptyString]
    ELSE [code |-> 200, relevantContent |-> result.text]

\* POST /refresh-rag (part_001 lines 134-150): awaits refreshVectorStore();
\* 'RAG system refreshed successfully', or 500 when the call raises
RefreshRagResponse(result) ==
    IF result.status = "threw" THEN [code |-> 500] ELSE [code |-> 200]

\* the guide at PDF_PATH is replaced by its next version
ReplaceDocument ==
    /\ pdf = "long"
    /\ pdf' = "short"
    /\ UNCHANGED <<service, control, history, unit>>

Next ==
    \/ ReplaceDocument
    \/ \E p \in Procs :
          \/ CallInitialize(p)
          \/ CallRefreshVectorStore(p)
          \/ CallSearchRelevantContext(p)
          \/ CallGetRelevantSections(p)
          \/ ExtractFails(p)
          \/ ExtractDone(p)
          \/ EmbedChunkFails(p)
          \/ \E v \in EmbedAnswers(chunk[p]) : EmbedChunkDone(p, v)
          \/ EmbedQueryFails(p)
          \/ \E q \in EmbedAnswers(QueryText) : \E kk \in KValues : EmbedQueryDone(p, q, kk)
          \/ Complete(p)

Spec == Init /\ [][Next]_vars

(***************************************************************************)
(* The service called by one client that awaits each call before it makes  *)
(* the next: a call starts only when no call is in flight.                 *)
(***************************************************************************)
Quiet == \A q \in Procs : pc[q] \in {"idle", "done"}

SerialNext ==
    \/ ReplaceDocument
    \/ \E p \in Procs :
          \/ Quiet /\ CallInitialize(p)
          \/ Quiet /\ CallRefreshVectorStore(p)
          \/ Quiet /\ CallSearchRelevantContext(p)
          \/ Quiet /\ CallGetRelevantSections(p)
          \/ ExtractFails(p)
          \/ ExtractDone(p)
          \/ EmbedChunkFails(p)
          \/ \E v \in EmbedAnswers(chunk[p]) : EmbedChunkDone(p, v)
          \/ EmbedQueryFails(p)
          \/ \E q \in EmbedAnswers(QueryText) : \E kk \in KValues : EmbedQueryDone(p, q, kk)
          \/ Complete(p)

SerialSpec == Init /\ [][SerialNext]_vars

(***************************************************************************)
(* The functions of the service that touch no field of it, called on      *)
(* their own with arguments drawn from small sets, one call in a          *)
(* behaviour.                                                              *)
(***************************************************************************)
\* largest number of entries of an index handed to the ranking
MaxEntries == 3

\* vectors of the dimension of the index: the zero vector, two of the same
\* direction, two orthogonal to them or between, one opposite
TestVectors == {<<0, 0>>, <<1, 0>>, <<2, 0>>, <<0, 1>>, <<1, 1>>, <<-1, 0>>}

\* vectors of other lengths
OtherVectors == {<<>>, <<0>>, <<1>>, <<0, 0, 0>>, <<1, 0, 2>>}

IsZeroVector(v) == \A j \in 1..Len(v) : v[j] = 0

\* cosineSimilarity(vecA, vecB), lines 293-316
CallCosineSimilarity(a, b) ==
    LET s == cosineSimilarity(a, b)
    IN  /\ call = NoCall
        /\ call' = [fn |-> "cosineSimilarity", vecA |-> a, vecB |-> b]
        /\ ret' = IF s.threw THEN [status |-> "threw"]
                  ELSE [status |-> "returned", value |-> [num |-> s.num, den2 |-> s.den2]]
        /\ UNCHANGED <<pdf, service, control, history>>

\* the index generateChunkEmbeddings builds (lines 260-267) when the embedder
\* answers vs[j] for chunk j: entry j holds chunk j, its vector and index j - 1
BuiltIndex(vs) ==
    [j \in 1..Len(vs) |->
        [chunk |-> [doc |-> "long", from |-> 800 * (j - 1), to |-> 800 * (j - 1) + 1000],
         embedding |-> vs[j], index |-> j - 1]]

VectorLists == UNION {[1..n -> TestVectors] : n \in 0..MaxEntries}

\* the values of k: negative, zero, up to one more than the largest index
RankKs == (0 - 1)..(MaxEntries + 1)

\* searchRelevantContext lines 330-346 for the index built from vs, the query
\* embedding q and k
CallTopResults(vs, q, k) ==
    LET results == topResults(BuiltIndex(vs), q, k)
    IN  /\ call = NoCall
        /\ call' = [fn |-> "topResults", entries |-> BuiltIndex(vs),
                    queryEmbedding |-> q, k |-> k]
        /\ ret' = [status |-> "returned", results |-> results,
                   text |-> FormatContext(results)]
        /\ UNCHANGED <<pdf, service, control, history>>

\* largest number of words of a user message
MaxWords == 7

\* the words of a message: of 4, 3 and 5 letters, in mixed case
MessageWords == {<<"P", "a", "s", "s">>, <<"t", "h", "e">>, <<"W", "i", "F", "i", "s">>}

\* what stands between two words, and what stands before and after them
Separators == {<<" ">>, <<"\n", "\t">>}

Margins == {<<>>, <<" ">>}

RECURSIVE JoinWith(_, _)
JoinWith(words, sep) ==
    IF words = <<>> THEN <<>>
    ELSE IF Len(words) = 1 THEN words[1]
    ELSE words[1] \o sep \o JoinWith(Tail(words), sep)

WordLists == UNION {[1..n -> MessageWords] : n \in 0..MaxWords}

\* getRelevantSections lines 363-366 and searchRelevantContext line 327: the
\* message is reduced to its search terms, and these are what is embedded
CallExtractSearchTerms(words, sep, margin) ==
    /\ call = NoCall
    /\ \E message \in {margin \o JoinWith(words, sep) \o margin} :
          /\ call' = [fn |-> "extractSearchTerms", message |-> message]
          /\ ret' = [status |-> "returned", value |-> extractSearchTerms(message)]
    /\ UNCHANGED <<pdf, service, control, history>>

\* largest number of iterations of the loop of splitIntoChunks that is followed
MaxIterations == 5

\* A text is described by its length, the offsets of its newlines, of its
\* periods and of its spaces; every other character is a letter.
TextOf(t) ==
    [j \in 1..t.len |->
        IF (j - 1) \in t.newlines THEN "\n"
        ELSE IF (j - 1) \in t.periods THEN "."
        ELSE IF (j - 1) \in t.blanks THEN " "
        ELSE "a"]

Letters(n) == [len |-> n, newlines |-> {}, periods |-> {}, blanks |-> {}]

\* offsets at which a paragraph of a three-paragraph text may end
ParagraphEnds == {300, 700, 701, 750, 798, 799, 950, 1200, 1700, 2100}

\* texts of 2400 characters in three paragraphs, each ended by a newline,
\* without or with a sentence ending inside the first window
ThreeParagraphs ==
    {[len |-> 2400, newlines |-> {n1, n2, 2399}, periods |-> ps, blanks |-> {}] :
        n1 \in ParagraphEnds, n2 \in ParagraphEnds, ps \in {{}, {760}}}

\* texts cut with the chunk size and overlap of loadAndProcessPDF: empty,
\* around the least length kept, a long text whose second window holds ten
\* letters after 200 spaces, one cut at a sentence end, and the paragraphs
GuideTexts ==
    {Letters(0), Letters(30), Letters(50), Letters(51), Letters(1030),
     [len |-> 1010, newlines |-> {}, periods |-> {}, blanks |-> 800..999],
     [len |-> 1100, newlines |-> {}, periods |-> {900}, blanks |-> {}]}
        \cup {t \in ThreeParagraphs : Cardinality(t.newlines) = 3}

\* short texts, and the empty text, cut with small chunk sizes
SmallTexts ==
    {Letters(0), Letters(90), Letters(250),
     [len |-> 250, newlines |-> {80}, periods |-> {}, blanks |-> {}]}

\* chunkSize and overlap: as in the code, and small with an overlap below
\* (well below, and above 0.7 times the chunk size), equal to and above the
\* chunk size
GuideConfig == [chunkSize |-> ChunkSize, overlap |-> ChunkOverlap]

SmallConfigs == {[chunkSize |-> 100, overlap |-> 20],
                 [chunkSize |-> 100, overlap |-> 90],
                 [chunkSize |-> 100, overlap |-> 100],
                 [chunkSize |-> 100, overlap |-> 120]}

SplitInputs == (GuideTexts \X {GuideConfig}) \cup (SmallTexts \X SmallConfigs)

\* splitIntoChunks(text, chunkSize, overlap) is called: lines 225-226
CallSplitIntoChunks(t, cfg) ==
    /\ call = NoCall
    /\ call' = [fn |-> "splitIntoChunks", text |-> t, chunkSize |-> cfg.chunkSize,
                overlap |-> cfg.overlap, start |-> 0, iterations |-> 0,
                windows |-> <<>>]
    /\ ret' = [status |-> "running", chunks |-> <<>>]
    /\ UNCHANGED <<pdf, service, control, history>>

InSplitLoop == call.fn = "splitIntoChunks" /\ ret.status = "running"

\* the loop goes on with the step s: the window is recorded, the chunk is
\* pushed if it is kept, the cursor moves
SplitApply(s) ==
    /\ call' = [call EXCEPT !.start = s.next, !.iterations = @ + 1,
                            !.windows = Append(@, [cut |-> s.cut, keep |-> s.keep])]
    /\ ret' = [ret EXCEPT !.chunks = IF s.keep THEN Append(@, s.chunk) ELSE @]
    /\ UNCHANGED <<pdf, service, control, history>>

\* as SplitIterate, with a cursor that moves past the end of the window
SplitIterateSkipping ==
    /\ InSplitLoop
    /\ call.start < call.text.len
    /\ call.iterations < MaxIterations
    /\ \E text \in {TextOf(call.text)} :
          \E s \in {ChunkStep(text, call.chunkSize, call.overlap, call.start)} :
             SplitApply([s EXCEPT !.next = s.cut.to + 1])

\* as SplitIterate, for a loop that tests start <= text.length
SplitIterateInclusive ==
    /\ InSplitLoop
    /\ call.start <= call.text.len
    /\ call.iterations < MaxIterations
    /\ \E text \in {TextOf(call.text)} :
          \E s \in {ChunkStep(text, call.chunkSize, call.overlap, call.start)} :
             SplitApply(s)

\* as SplitIterate, with the cursor set to end - overlap in both branches
SplitIterateRawAdvance ==
    /\ InSplitLoop
    /\ call.start < call.text.len
    /\ call.iterations < MaxIterations
    /\ \E text \in {TextOf(call.text)} :
          \E s \in {ChunkStep(text, call.chunkSize, call.overlap, call.start)} :
             SplitApply([s EXCEPT !.next =
                            IF s.atBreak
                            THEN Min2(call.start + call.chunkSize, call.text.len) - call.overlap
                            ELSE s.next])

\* one iteration of the while loop, lines 228-251
SplitIterate ==
    /\ InSplitLoop
    /\ call.start < call.text.len
    /\ call.iterations < MaxIterations
    /\ \E text \in {TextOf(call.text)} :
          \E s \in {ChunkStep(text, call.chunkSize, call.overlap, call.start)} :
             SplitApply(s)

\* the loop condition of line 228 is false: line 253
SplitReturn ==
    /\ InSplitLoop
    /\ ~(call.start < call.text.len)
    /\ ret' = [ret EXCEPT !.status = "returned"]
    /\ UNCHANGED <<call, pdf, service, control, history>>

\* pdfData.text in processMessage: the whole text of the guide, as one string
FullText(d) == [doc |-> d, from |-> 0, to |-> Len(DocText(d))]

\* the string 'PDF content not available'
NotAvailable == [doc |-> "PDF content not available", from |-> 0, to |-> 25]

\* how the read of the guide by processMessage ends: fs.readFile rejects,
\* pdfParse rejects, or the text is extracted
ReadOutcomes == {"noFile", "badPdf", "ok"}

\* AIAssistant.buildPrompt: both prompts put context.pdfContent under
\* 'Helpdesk Guide Content:' and the message under 'User Message:'; the
\* prompt for an authenticated user also holds the user's data and tickets
buildPrompt(message, context, isPublic) ==
    [guide |-> context.pdfContent, message |-> message, userInformation |-> ~isPublic]

\* AIAssistant.processMessage(message, userId, userRole, isPublic) for the
\* guide d: the user and the tickets are looked up unless isPublic, the guide
\* is read, the prompt is built and sent with chat.sendMessage.  calls are
\* the functions of other modules that were called.
CallProcessMessage(d, read, isPublic, userFound) ==
    LET lookups == IF isPublic THEN {}
                   ELSE IF userFound THEN {"User.findById", "Ticket.find"}
                   ELSE {"User.findById"}
        reads == IF read = "noFile" THEN {"fs.readFile"} ELSE {"fs.readFile", "pdfParse"}
        context == [pdfContent |-> IF read = "ok" THEN FullText(d) ELSE NotAvailable]
    IN  /\ call = NoCall
        /\ call' = [fn |-> "processMessage", message |-> QueryText,
                    isPublic |-> isPublic, doc |-> d]
        /\ ret' = IF ~isPublic /\ ~userFound
                  THEN [status |-> "threw", calls |-> lookups]
                  ELSE [status |-> "returned",
                        calls |-> lookups \cup reads \cup {"chat.sendMessage"},
                        prompt |-> buildPrompt(QueryText, context, isPublic)]
        /\ UNCHANGED <<pdf, service, control, history>>

\* the arguments a call can be made with: those of S while no call is under
\* way, none once a function has been called
Arguments(S) == IF call = NoCall THEN S ELSE {}

\* a function is called; the loop of splitIntoChunks then runs to its end
UnitNext ==
    \/ \E x \in Arguments((TestVectors \cup OtherVectors) \X (TestVectors \cup OtherVectors)) :
          CallCosineSimilarity(x[1], x[2])
    \/ \E x \in Arguments(VectorLists \X TestVectors \X RankKs) :
          CallTopResults(x[1], x[2], x[3])
    \/ \E x \in Arguments(WordLists \X Separators \X Margins) :
          CallExtractSearchTerms(x[1], x[2], x[3])
    \/ \E x \in Arguments(SplitInputs) : CallSplitIntoChunks(x[1], x[2])
    \/ \E x \in Arguments(Docs \X ReadOutcomes \X BOOLEAN \X BOOLEAN) :
          CallProcessMessage(x[1], x[2], x[3], x[4])
    \/ SplitIterate
    \/ SplitReturn

UnitSpec == Init /\ [][UnitNext]_vars

(***************************************************************************)
(* Properties.                                                             *)
(***************************************************************************)
\* caller p takes the step
Steps(p) == pc'[p] # pc[p] \/ i'[p] # i[p]

\* the call of p is running loadAndProcessPDF
Building(p) == pc[p] \in {"readFile", "embedChunk"}

\* the step is the one in which the query of p scores the stored entries
Ranks(p) == pc[p] = "embedQuery" /\ "ranked" \in did'[p]

Finished(p, o) == op[p] = o /\ pc[p] = "done"

\* C1: getRelevantSections never raises: every call of it ends by returning
\* a string, and the string is '' whenever a step of the call failed
\* (extraction, the embedding of a chunk or of the query, the TypeError of a
\* missing model handle, vectors of different lengths).
C1_NeverRaises ==
    \A p \in Procs :
        Finished(p, "getRelevantSections") =>
            /\ out[p].status = "returned"
            /\ "failed" \in did[p] => out[p].text = EmptyString

C1_Witness ==
    \E p \in Procs :
        /\ Finished(p, "getRelevantSections")
        /\ "embedFailed" \in did[p]
        /\ out[p] = [status |-> "returned", text |-> EmptyString]

\* C2: atomic publish: a query that scores the index while a build is in
\* flight, the build having started when the service held a complete
\* generation, scores one complete generation.
C2_AtomicPublish ==
    [][\A q \in Procs :
          (Ranks(q) /\ \E p \in Procs : Building(p) /\ entry[p].generation)
              => \E d \in Docs : IsBuildOf(chunkEmbeddings, DocChunks(d))]_vars

\* C3: a refreshVectorStore() of an initialized service that fails leaves
\* the service as it was before the call: both arrays unchanged, flag true.
C3_FailedRefreshKeepsGeneration ==
    [][\A p \in Procs :
          (/\ op[p] = "refreshVectorStore"
           /\ entry[p].before.isInitialized
           /\ pc[p] # "done"
           /\ pc'[p] = "done"
           /\ out'[p].status = "threw")
              => /\ documentChunks' = entry[p].before.documentChunks
                 /\ chunkEmbeddings' = entry[p].before.chunkEmbeddings
                 /\ isInitialized']_vars

\* C4: single-flight initialization: two calls that both found the service
\* uninitialized and are initializing at the same time never both send the
\* same chunk to the embedder.
C4_SingleFlight ==
    \A p, q \in Procs :
        (/\ p # q
         /\ Building(p) /\ Building(q)
         /\ "initialize" \in did[p] /\ "initialize" \in did[q]
         /\ ~entry[p].before.isInitialized /\ ~entry[q].before.isInitialized)
            => \A a \in 1..Len(sent[p]) : \A b \in 1..Len(sent[q]) : sent[p][a] # sent[q][b]

\* C5: initialize() called on an initialized service is a no-op: no step of
\* the call reads the document, calls the embedder, or changes
\* documentChunks, chunkEmbeddings or isInitialized.
C5_InitializeOnce ==
    [][\A p \in Procs :
          (op'[p] = "initialize" /\ entry'[p].before.isInitialized /\ Steps(p))
              => /\ UNCHANGED <<documentChunks, chunkEmbeddings, isInitialized>>
                 /\ "extracted" \notin did'[p]
                 /\ sent'[p] = <<>>]_vars

\* C6: while a refreshVectorStore() of an initialized service is in progress,
\* a query that starts does not start a build, and a query that scores the
\* index scores the generation held before the refresh.
C6_QueriesDuringRefresh ==
    [][\A p, q \in Procs :
          (/\ op[p] = "refreshVectorStore" /\ Building(p) /\ entry[p].generation
           /\ op'[q] \in QueryOps /\ Steps(q))
              => /\ pc[q] = "idle" => "initialize" \notin did'[q]
                 /\ Ranks(q) => chunkEmbeddings = entry[p].before.chunkEmbeddings]_vars

C8_TestRagSurfacesFailure ==
    \A p \in Procs :
        (Finished(p, "getRelevantSections") /\ "failed" \in did[p])
            => TestRagResponse(TRUE, out[p]).code = 500

\* C9: a build whose embedder call fails for a chunk stops there: the call is
\* over, it has sent no chunk after the failed one, it has not set
\* isInitialized, and initialize() / refreshVectorStore() raise to their
\* caller, so that POST /refresh-rag answers 500.
C9_EmbedFailureAbortsBuild ==
    [][\A p \in Procs :
          "embedFailed" \in did'[p] =>
              /\ pc'[p] = "done"
              /\ "setInitialized" \notin did'[p]
              /\ "embedFailed" \notin did[p] =>
                    /\ sent'[p] = sent[p]
                    /\ chunkEmbeddings' = chunkEmbeddings
                    /\ isInitialized' = isInitialized
              /\ op'[p] \in {"initialize", "refreshVectorStore"} =>
                    out'[p].status = "threw"
              /\ op'[p] = "refreshVectorStore" =>
                    RefreshRagResponse(out'[p]).code = 500]_vars

C9_Witness ==
    \E p \in Procs :
        /\ Finished(p, "refreshVectorStore")
        /\ "embedFailed" \in did[p]
        /\ Len(sent[p]) = 1
        /\ Len(documentChunks) = 2
        /\ out[p].status = "threw"

\* C10: the service is never initialized while chunkEmbeddings holds
\* vectors of different lengths.
C10_UniformDimension ==
    isInitialized =>
        \A a, b \in 1..Len(chunkEmbeddings) :
            Len(chunkEmbeddings[a].embedding) = Len(chunkEmbeddings[b].embedding)

SimOne(s) == s.num > 0 /\ s.num * s.num = s.den2

SimEqual(s, t) == ~SimLess(s, t) /\ ~SimLess(t, s)

\* the call is a ranking, and it has returned
Ranked == call.fn = "topResults" /\ ret.status = "returned"

C13_LengthIsMin ==
    Ranked =>
        /\ Len(ret.results) = Min2(call.k, Len(call.entries))
        /\ Len(ret.results) <= call.k

\* C13 amended: for k >= 0 the ranking returns min(k, numChunks) results; for
\* k < 0, slice(0, k) drops the last -k results of the sorted list, so that
\* max(numChunks + k, 0) are returned.
C13_ResultLength ==
    Ranked =>
        Len(ret.results) = IF call.k >= 0 THEN Min2(call.k, Len(call.entries))
                           ELSE Max2(Len(call.entries) + call.k, 0)

C13_Witness ==
    /\ Ranked
    /\ call.k = 2
    /\ Len(call.entries) = 3
    /\ Len(ret.results) = 2

C15_ZeroVectorNeverRaises ==
    (/\ call.fn = "cosineSimilarity"
     /\ IsZeroVector(call.vecA) \/ IsZeroVector(call.vecB))
        => /\ ret.status = "returned"
           /\ ret.value.num = 0 /\ ret.value.den2 > 0

\* C15 amended: when one of the arguments is a zero vector, cosineSimilarity
\* returns 0 if the two vectors have the same length, and raises 'Vectors
\* must have the same length' if they have not.
C15_ZeroVectorSameLength ==
    (/\ call.fn = "cosineSimilarity"
     /\ IsZeroVector(call.vecA) \/ IsZeroVector(call.vecB))
        => IF Len(call.vecA) = Len(call.vecB)
           THEN /\ ret.status = "returned"
                /\ ret.value.num = 0 /\ ret.value.den2 > 0
           ELSE ret.status = "threw"

C15_Witness ==
    /\ call.fn = "cosineSimilarity"
    /\ call.vecA = <<0, 0>>
    /\ call.vecB = <<1, 1>>
    /\ ret = [status |-> "returned", value |-> [num |-> 0, den2 |-> 1]]


\* the first positions of the words of s: the characters that are not white
\* space and follow white space or begin s
WordStarts(s) ==
    {a \in 1..Len(s) : ~IsWhitespace(s[a]) /\ (a = 1 \/ IsWhitespace(s[a - 1]))}

\* the last position of the word of s that starts at a
WordEnd(s, a) ==
    CHOOSE b \in a..Len(s) :
        /\ \A h \in a..b : ~IsWhitespace(s[h])
        /\ b = Len(s) \/ IsWhitespace(s[b + 1])

\* the words of s of more than 3 characters that have fewer than 5 such
\* words before them, from the one starting at or after position from on,
\* joined by single spaces
RECURSIVE TermsFrom(_, _)
TermsFrom(s, from) ==
    LET long == {a \in WordStarts(s) : WordEnd(s, a) - a + 1 > 3}
        kept == {a \in long : Cardinality({h \in long : h < a}) < 5 /\ a >= from}
    IN  IF kept = {} THEN <<>>
        ELSE LET a == CHOOSE x \in kept : \A y \in kept : x <= y
                 rest == TermsFrom(s, WordEnd(s, a) + 1)
             IN  SubSeq(s, a, WordEnd(s, a)) \o
                    (IF rest = <<>> THEN <<>> ELSE <<" ">> \o rest)

\* C16: query normalization: the text embedded for a user message is the
\* message in lower case, cut into words at white space, without the words
\* of 3 characters or fewer, cut to the first 5 words left, joined by single
\* spaces.
C16_QueryNormalization ==
    call.fn = "extractSearchTerms" =>
        /\ ret.status = "returned"
        /\ ret.value = TermsFrom(toLowerCase(call.message), 1)
        /\ \A j \in 1..Len(ret.value) : ret.value[j] \notin {"P", "W", "F", "\t", "\n"}
        /\ Cardinality({j \in 1..Len(ret.value) : ret.value[j] = " "}) <= 4

C16_Witness ==
    /\ call.fn = "extractSearchTerms"
    /\ Len(call.message) = 1 + (4 + 3 + 5 + 4 * 4) + 6 * 2 + 1
    /\ SubSeq(call.message, 1, 17) =
          <<" ", "P", "a", "s", "s", "\n", "\t", "t", "h", "e", "\n", "\t",
            "W", "i", "F", "i", "s">>
    /\ ret.value = <<"p", "a", "s", "s", " ", "w", "i", "f", "i", "s", " ",
                     "p", "a", "s", "s", " ", "p", "a", "s", "s", " ",
                     "p", "a", "s", "s">>

SpanLength(s) == s.to - s.from

\* offset j lies in the span s
InSpan(j, s) == s.from <= j /\ j < s.to

\* the length of the span s of text without the white space at its two ends
TrimmedLength(text, s) ==
    LET solid == {j \in s.from..(s.to - 1) : ~IsWhitespace(text[j + 1])}
    IN  IF solid = {} THEN 0
        ELSE (CHOOSE j \in solid : \A h \in (j + 1)..(s.to - 1) : h \notin solid)
                - (CHOOSE j \in solid : \A h \in s.from..(j - 1) : h \notin solid) + 1

Splitting == call.fn = "splitIntoChunks"

SplitReturned == Splitting /\ ret.status = "returned"

\* C17: chunker fail-fast: a call of splitIntoChunks with overlap >=
\* chunkSize performs no iteration of its loop in which the cursor start
\* fails to advance.
C17_FailFast ==
    [][(/\ Splitting
        /\ call.overlap >= call.chunkSize
        /\ call'.iterations > call.iterations)
           => call'.start > call.start]_vars

C19_EveryCharacterCovered ==
    SplitReturned =>
        \A text \in {TextOf(call.text)} :
            \A j \in 0..(call.text.len - 1) :
                ~IsWhitespace(text[j + 1]) =>
                    \E c \in 1..Len(ret.chunks) : InSpan(j, ret.chunks[c])

\* C19 amended: when splitIntoChunks returns, every character of the text
\* lies inside the window of an iteration, and every character that is not
\* white space lies inside a returned chunk or inside a window that was
\* discarded because its trimmed text has 50 characters or fewer.
C19_CoveredOrDiscarded ==
    SplitReturned =>
        \A text \in {TextOf(call.text)} :
            \A j \in 0..(call.text.len - 1) :
                /\ \E w \in 1..Len(call.windows) : InSpan(j, call.windows[w].cut)
                /\ ~IsWhitespace(text[j + 1]) =>
                      \/ \E c \in 1..Len(ret.chunks) : InSpan(j, ret.chunks[c])
                      \/ \E w \in 1..Len(call.windows) :
                            /\ InSpan(j, call.windows[w].cut)
                            /\ ~call.windows[w].keep
                            /\ TrimmedLength(text, call.windows[w].cut) <= 50

C19_Witness ==
    /\ SplitReturned
    /\ Len(ret.chunks) = 1
    /\ Len(call.windows) = 2
    /\ call.text.len = 1010
    /\ \A j \in 1000..1009 :
          /\ j \notin call.text.blanks
          /\ ~InSpan(j, ret.chunks[1])
          /\ InSpan(j, call.windows[2].cut)

\* the call cuts a text of 2400 characters in three paragraphs with
\* chunkSize 1000 and overlap 200
SplitsThreeParagraphs ==
    /\ SplitReturned
    /\ call.text \in ThreeParagraphs
    /\ Cardinality(call.text.newlines) = 3
    /\ call.chunkSize = 1000 /\ call.overlap = 200

\* C20 as stated: a text of 2400 characters in three paragraphs gives
\* exactly 3 chunks with chunkSize 1000 and overlap 200, wherever its
\* periods and newlines are.
C20_AlwaysThreeChunks == SplitsThreeParagraphs => Len(ret.chunks) = 3

\* C20 amended: such a text gives 4 chunks when the last period or newline
\* among its first 1000 characters is at an offset from 701 to 798, and 3
\* chunks otherwise.
C20_ThreeOrFourChunks ==
    SplitsThreeParagraphs =>
        LET breaks == {b \in call.text.newlines \cup call.text.periods : b < 1000}
            early  == /\ breaks # {}
                      /\ \E b \in breaks : /\ \A h \in breaks : h <= b
                                           /\ 700 < b /\ b < 799
        IN  Len(ret.chunks) = IF early THEN 4 ELSE 3

C20_Witness ==
    /\ SplitsThreeParagraphs
    /\ call.text.newlines = {750, 1700, 2399}
    /\ call.text.periods = {}
    /\ Len(ret.chunks) = 4


\* C21: the empty text is not an error: a call of splitIntoChunks with the
\* empty text performs no iteration, pushes no chunk, does not raise and is
\* ready to return the empty list, whatever chunkSize and overlap are (also
\* with overlap equal to or above chunkSize).
C21_EmptyTextNoChunks ==
    (Splitting /\ call.text.len = 0) =>
        /\ call.iterations = 0
        /\ call.windows = <<>>
        /\ ret.chunks = <<>>
        /\ ret.status \in {"running", "returned"}
        /\ ret.status = "running" => ENABLED SplitReturn

C21_Witness ==
    /\ SplitReturned
    /\ call.text.len = 0
    /\ call.overlap > call.chunkSize
    /\ call.iterations = 0
    /\ ret.chunks = <<>>


\* the call of p is a refreshVectorStore() that returned normally
Refreshed(p) ==
    Finished(p, "refreshVectorStore") /\ out[p].status = "returned"

\* C22: refreshVectorStore() is idempotent.  With calls made one after
\* another, every refresh that succeeds leaves the service initialized, with
\* the chunk list of the document and an index fully built from it; and a
\* refresh that succeeds on a service that held such a state for the same
\* document (the state a successful refresh leaves) ends in that very state:
\* the same chunk list and, with an embedder that answers as it did before
\* (vectors of the same length for each chunk), a chunkEmbeddings equal to
\* the earlier one, entry by entry.
C22_RefreshIdempotent ==
    [][\A p \in Procs :
          (/\ op[p] = "refreshVectorStore"
           /\ pc[p] # "done"
           /\ pc'[p] = "done"
           /\ out'[p].status = "returned")
              => /\ HoldsGeneration'
                 /\ (/\ entry[p].generation
                     /\ entry[p].before.documentChunks = documentChunks'
                     /\ \A j \in 1..Len(chunkEmbeddings') :
                           Len(chunkEmbeddings'[j].embedding)
                              = Len(entry[p].before.chunkEmbeddings[j].embedding))
                       => chunkEmbeddings' = entry[p].before.chunkEmbeddings]_vars

C22_Witness ==
    /\ Refreshed(1)
    /\ Refreshed(2)
    /\ entry[2].generation
    /\ HoldsGeneration
    /\ Len(documentChunks) = 2
    /\ documentChunks = entry[2].before.documentChunks
    /\ chunkEmbeddings = entry[2].before.chunkEmbeddings

\* C23: refreshing is admin only: every call of refreshVectorStore() made by
\* POST /refresh-rag is made for a requester whose role is administrator.
C23_RefreshAdminOnly ==
    \A p \in Procs :
        op[p] = "refreshVectorStore" => "admin" \in did[p]


\* C24: the guide content in the prompt of processMessage is what the
\* retrieval gave for the message: whenever processMessage sent a prompt, it
\* called ragService.getRelevantSections, and the guide content of the prompt
\* is not the whole text of the guide.
C24_PromptHoldsRetrievedSections ==
    (call.fn = "processMessage" /\ ret.status = "returned") =>
        /\ "ragService.getRelevantSections" \in ret.calls
        /\ ret.prompt.guide # FullText(call.doc)


\* C25: index state invariant: in every reachable state either the index is
\* empty and isInitialized is false, or chunkEmbeddings is fully built for
\* documentChunks (one entry per chunk, entry j holding chunk j and index j);
\* in particular isInitialized is never true over an index that is not fully
\* built.
C25_IndexStateInvariant ==
    /\ \/ chunkEmbeddings = <<>> /\ ~isInitialized
       \/ IsBuildOf(chunkEmbeddings, documentChunks)
    /\ isInitialized => IsBuildOf(chunkEmbeddings, documentChunks)


\* C26: sentence-boundary cut rule: in every iteration of splitIntoChunks
\* with end < len(text), where p is the offset in the text of the rightmost
\* '.' or newline of text[start, end): if p > start + 0.7 * chunkSize the
\* window cut is text[start .. p] and the next start is p + 1 - overlap;
\* otherwise the window cut is text[start, end) and the next start is
\* end - overlap.  For every value of start.
C26_SentenceBoundaryCut ==
    [][(Splitting /\ call'.iterations > call.iterations) =>
          \A text \in {TextOf(call.text)} :
             LET start  == call.start
                 end    == Min2(start + call.chunkSize, call.text.len)
                 breaks == {j \in Max2(start, 0)..(end - 1) : text[j + 1] \in {".", "\n"}}
                 p      == IF breaks = {} THEN 0 - 1
                           ELSE CHOOSE j \in breaks : \A h \in breaks : h <= j
                 cut    == call'.windows[Len(call'.windows)].cut
             IN  end < call.text.len =>
                    IF breaks # {} /\ 10 * p > 10 * start + 7 * call.chunkSize
                    THEN /\ cut = [from |-> start, to |-> p + 1]
                         /\ call'.start = p + 1 - call.overlap
                    ELSE /\ cut = [from |-> start, to |-> end]
                         /\ call'.start = end - call.overlap]_vars


\* C27: chunker termination: in a call of splitIntoChunks with
\* 0 <= overlap < chunkSize the cursor start is larger after every iteration
\* of the loop than before it, whichever branch the iteration takes.
C27_CursorAdvances ==
    [][(/\ Splitting
        /\ 0 <= call.overlap /\ call.overlap < call.chunkSize
        /\ call'.iterations > call.iterations)
           => call'.start > call.start]_vars


\* every call made so far is still with its caller (none has been completed
\* and forgotten), none is building, and every one of them that built has
\* finished its build successfully
BuildsFinished ==
    /\ calls = Cardinality({p \in Procs : pc[p] # "idle"})
    /\ \A p \in Procs :
          pc[p] # "idle" =>
             /\ ~Building(p)
             /\ "setInitialized" \in did[p]
             /\ "embedFailed" \notin did[p]

\* C28: no duplicate entries after overlapping builds: once every build that
\* was started (by initialize(), by a query on an uninitialized service, by
\* refreshVectorStore()) has finished successfully, chunkEmbeddings holds
\* exactly one entry for each document chunk and no chunk index twice.
C28_NoDuplicateEntries ==
    BuildsFinished =>
        /\ Len(chunkEmbeddings) = Len(documentChunks)
        /\ \A a, b \in 1..Len(chunkEmbeddings) :
              a # b => chunkEmbeddings[a].index # chunkEmbeddings[b].index


\* the window cut by the latest iteration recorded in the call record c
LastCut(c) == c.windows[Len(c.windows)].cut

\* the iteration that starts at the cursor of the call record c is not the
\* last one: its window ends before the end of the text (line 233)
MoreTextRemains(c) == Min2(c.start + c.chunkSize, c.text.len) < c.text.len

C30_QueriesReadOnly ==
    [][\A p \in Procs :
          (op'[p] \in QueryOps /\ entry'[p].before.isInitialized /\ Steps(p))
              => UNCHANGED <<documentChunks, chunkEmbeddings, isInitialized>>]_vars

C30_Witness ==
    \E p, q \in Procs :
        /\ Finished(p, "searchRelevantContext")
        /\ Finished(q, "getRelevantSections")
        /\ entry[p].before.isInitialized /\ entry[q].before.isInitialized
        /\ "ranked" \in did[p] /\ Len(out[p].text) = 2
        /\ "failed" \in did[q] /\ out[q].text = EmptyString
        /\ HoldsGeneration
        /\ Len(chunkEmbeddings) = 2


====
